---- MODULE Spec2Model ----
(***************************************************************************)
(* FileSessionStorage (src/src/lib.rs): a session store keeping one file   *)
(* per session record in a folder, and its expiry sweep delete_expired.    *)
(*                                                                         *)
(* The file system is modelled with inodes: a directory entry names an     *)
(* inode, an open file handle keeps its inode after the entry is removed.  *)
(* A serialized record is a sequence of tokens, written and read one token *)
(* per system call (serde_json writes to and reads from an unbuffered      *)
(* std::fs::File).                                                         *)
(***************************************************************************)
EXTENDS Integers, Sequences, FiniteSets, TLC

\* ------------------------------------------------------------------ bounds
MaxTime == 2

\* ------------------------------------------------------------ value sets
Ids == {1, 2}
Payloads == {1, 2}
Expiries == {1, 2}
MinAges == {1, 2}
Times == 0..MaxTime
ForeignNames == {"notes"}
AllProcs == {1, 2, 3}

\* Id::to_string of record.id / session_id, the file name of a session.
IdToString(i) == IF i = 1 THEN "s1" ELSE "s2"

SessionNames == {IdToString(i) : i \in Ids}
Names == SessionNames \cup ForeignNames

\* Id::from_str(k).ok(): 0 stands for None (the name parses as no identifier).
IdFromStrUnchecked(n) ==
  IF \E i \in Ids : IdToString(i) = n
  THEN CHOOSE i \in Ids : IdToString(i) = n
  ELSE 1
IdFromStr(n) ==
  IF \E i \in Ids : IdToString(i) = n
  THEN CHOOSE i \in Ids : IdToString(i) = n
  ELSE 0

Record == [id : Ids, data : Payloads, expiry_date : Expiries]
NullRec == [id |-> 0, data |-> 0, expiry_date |-> 0]
IdOnly(i) == [id |-> i, data |-> 0, expiry_date |-> 0]

\* --------------------------------------------------------------- codec
Tok(k, v) == [k |-> k, v |-> v]
Hole == Tok("nul", 0)
Junk == <<Tok("junk", 0)>>

\* serde_json::to_writer(file, &record): the fragments written, in order.
\* A record's payload is a map of r.data entries, one token each, so records
\* differ in length.
DataToks(r) == [j \in 1..r.data |-> Tok("data", j)]
EncodeDropsExpiry(r) == <<Tok("id", r.id)>> \o DataToks(r)
Encode(r) == <<Tok("id", r.id)>> \o DataToks(r) \o <<Tok("exp", r.expiry_date)>>

\* serde_json::from_reader(file): a record, or a failure on anything else
\* (a truncated value, trailing tokens, zero bytes).
WellFormed(s) ==
  /\ Len(s) >= 3
  /\ s[1].k = "id"
  /\ s[Len(s)].k = "exp"
  /\ \A j \in 2..(Len(s) - 1) : s[j] = Tok("data", j - 1)
Decode(s) == [id |-> s[1].v, data |-> Len(s) - 2, expiry_date |-> s[Len(s)].v]

\* ---------------------------------------------------------------- state
VARIABLES
  folder_exists,        \* the folder folder_name exists
  dir,                  \* folder entries: name -> inode (0: no entry)
  inode,                \* inode -> [content, mtime]
  now,                  \* the wall clock
  minimum_expiry_date,  \* the store's threshold
  pc,                   \* per caller: the next step of its call
  call,                 \* per caller: operation and argument
  fd,                   \* per caller: inode of its open file (0: none)
  off,                  \* per caller: offset of its open file
  buf,                  \* per caller: tokens read so far
  entries,              \* per sweep: names still to be returned by next_entry
  cur,                  \* per sweep: session_id of the entry in hand
  session,              \* per sweep: the record load returned
  result,               \* per caller: what the call returned
  dirty,                \* per caller: the call has changed the folder
  hist                  \* per id: the last completed changing call

fsVars == <<folder_exists, dir, inode>>
cfgVars == <<minimum_expiry_date>>
ioVars == <<fd, off, buf>>
sweepVars == <<entries, cur, session>>
vars == <<folder_exists, dir, inode, now, minimum_expiry_date, pc, call, fd,
          off, buf, entries, cur, session, result, dirty, hist>>

Inodes == 1..(Cardinality(Names) + Cardinality(AllProcs))
Blank == [content |-> <<>>, mtime |-> 0]
Absent == <<Tok("absent", 0)>>

\* What a caller can observe of the folder: its existence, its entries and
\* every entry's content.
View ==
  [exists |-> folder_exists,
   files |-> [n \in Names |-> IF dir[n] = 0 THEN Absent ELSE inode[dir[n]].content]]

Referenced(d, f, i) == (\E n \in Names : d[n] = i) \/ (\E p \in AllProcs : f[p] = i)
FreeInode == CHOOSE i \in Inodes :
  /\ ~Referenced(dir, fd, i)
  /\ \A j \in Inodes : ~Referenced(dir, fd, j) => i <= j
\* An inode no entry and no handle refers to is gone.
Reclaim(d, f, ino) == [i \in Inodes |-> IF Referenced(d, f, i) THEN ino[i] ELSE Blank]

Res(tag, rec) == [tag |-> tag, rec |-> rec]
NoResult == Res("pending", NullRec)
\* live: a create of the id has returned Ok and no delete has removed it since.
Hist(op, rec, live) == [op |-> op, rec |-> rec, live |-> live]

InSweep(p) == call[p].op = "delete_expired"
\* The identifier load and delete work on: the caller's, or the sweep's.
TargetId(p) == IF InSweep(p) THEN cur[p] ELSE call[p].rec.id
TargetNameShared(p) == IdToString(1)
TargetName(p) == IdToString(TargetId(p))

TypeOK ==
  /\ folder_exists \in BOOLEAN
  /\ dir \in [Names -> Inodes \cup {0}]
  /\ now \in Times
  /\ minimum_expiry_date \in MinAges
  /\ \A p \in AllProcs : fd[p] \in Inodes \cup {0}

InitProcs ==
  /\ pc = [p \in AllProcs |-> "idle"]
  /\ call = [p \in AllProcs |-> [op |-> "none", rec |-> NullRec]]
  /\ fd = [p \in AllProcs |-> 0]
  /\ off = [p \in AllProcs |-> 0]
  /\ buf = [p \in AllProcs |-> <<>>]
  /\ entries = [p \in AllProcs |-> {}]
  /\ cur = [p \in AllProcs |-> 0]
  /\ session = [p \in AllProcs |-> NullRec]
  /\ result = [p \in AllProcs |-> NoResult]
  /\ dirty = [p \in AllProcs |-> FALSE]

\* A new store: the folder does not exist yet, or exists from an earlier run
\* and holds a file that is not a session.
Init ==
  /\ InitProcs
  /\ hist = [i \in Ids |-> Hist("none", NullRec, FALSE)]
  /\ now = 0
  /\ minimum_expiry_date \in MinAges
  /\ \E foreign \in BOOLEAN :
       /\ folder_exists = foreign
       /\ dir = [n \in Names |-> IF foreign /\ n \in ForeignNames THEN 1 ELSE 0]
       /\ inode = [i \in Inodes |->
                     IF foreign /\ i = 1 THEN [content |-> Junk, mtime |-> 0] ELSE Blank]

\* -------------------------------------------------------- file system
\* OpenOptions of create, save and load.
CreateOpenOptionsNotExclusive == [create_new |-> FALSE, create |-> TRUE, truncate |-> FALSE]
CreateOpenOptions == [create_new |-> TRUE, create |-> FALSE, truncate |-> FALSE]
SaveOpenOptionsCreating == [create_new |-> FALSE, create |-> TRUE, truncate |-> TRUE]
SaveOpenOptionsNoTruncate == [create_new |-> FALSE, create |-> FALSE, truncate |-> FALSE]
SaveOpenOptions == [create_new |-> FALSE, create |-> FALSE, truncate |-> TRUE]
LoadOpenOptionsTruncating == [create_new |-> FALSE, create |-> FALSE, truncate |-> TRUE]
LoadOpenOptions == [create_new |-> FALSE, create |-> FALSE, truncate |-> FALSE]

\* OpenOptions::open(path): "fail", or the file opened is "new" or "existing".
OpenOutcome(n, opts) ==
  IF ~folder_exists THEN "fail"
  ELSE IF dir[n] # 0 THEN (IF opts.create_new THEN "fail" ELSE "existing")
  ELSE IF opts.create_new \/ opts.create THEN "new"
  ELSE "fail"

OpenedInode(n, opts) == IF OpenOutcome(n, opts) = "new" THEN FreeInode ELSE dir[n]

\* The effect of a successful open on the folder and on the file.
DirAfterOpen(n, opts) ==
  IF OpenOutcome(n, opts) = "new" THEN [dir EXCEPT ![n] = FreeInode] ELSE dir
InodeAfterOpen(n, opts) ==
  IF OpenOutcome(n, opts) = "new" \/ opts.truncate
  THEN [inode EXCEPT ![OpenedInode(n, opts)] = [content |-> <<>>, mtime |-> now]]
  ELSE inode

\* write(2) of one token at the handle's offset.
Holes(k) == [j \in 1..k |-> Hole]
WriteAt(c, k, t) ==
  IF k < Len(c) THEN [c EXCEPT ![k + 1] = t] ELSE c \o Holes(k - Len(c)) \o <<t>>

\* Path::is_file
IsFile(n) == folder_exists /\ dir[n] # 0

\* remove_file(path): Ok, or the kind of the error.
RemoveOutcome(n) == IF IsFile(n) THEN "Ok" ELSE "NotFound"

\* delete's match on the result of remove_file.
DeleteResultStrict(e) == IF e = "Ok" THEN "ok" ELSE "err"
DeleteResult(e) == IF e = "Ok" \/ e = "NotFound" THEN "ok" ELSE "err"

\* age < self.minimum_expiry_date
TooYoungInclusive(age) == age <= minimum_expiry_date
TooYoung(age) == age < minimum_expiry_date

\* OffsetDateTime::now_utc() > session.expiry_date
IsExpiredInclusive(r) == now >= r.expiry_date
IsExpired(r) == now > r.expiry_date

Touched(p) == dirty' = [dirty EXCEPT ![p] = @ \/ (View' # View)]

\* --------------------------------------------------------------- calls
Begin(p, op, rec, first) ==
  /\ pc[p] = "idle"
  /\ pc' = [pc EXCEPT ![p] = first]
  /\ call' = [call EXCEPT ![p] = [op |-> op, rec |-> rec]]
  /\ UNCHANGED <<fsVars, now, cfgVars, ioVars, sweepVars, result, dirty, hist>>

StartCreate(p) == \E r \in Record : Begin(p, "create", r, "create_dir")
StartSave(p) == \E r \in Record : Begin(p, "save", r, "save_open")
StartLoad(p) == \E i \in Ids : Begin(p, "load", IdOnly(i), "load_is_file")
StartDelete(p) == \E i \in Ids : Begin(p, "delete", IdOnly(i), "delete_remove")
StartSweep(p) == Begin(p, "delete_expired", NullRec, "sweep_read_dir")

\* The call has returned to its caller, who may call again.
Return(p) ==
  /\ pc[p] = "done"
  /\ pc' = [pc EXCEPT ![p] = "idle"]
  /\ call' = [call EXCEPT ![p] = [op |-> "none", rec |-> NullRec]]
  /\ result' = [result EXCEPT ![p] = NoResult]
  /\ dirty' = [dirty EXCEPT ![p] = FALSE]
  /\ entries' = [entries EXCEPT ![p] = {}]
  /\ cur' = [cur EXCEPT ![p] = 0]
  /\ session' = [session EXCEPT ![p] = NullRec]
  /\ UNCHANGED <<fsVars, now, cfgVars, ioVars, hist>>

Returns(p, tag, rec) ==
  /\ pc' = [pc EXCEPT ![p] = "done"]
  /\ result' = [result EXCEPT ![p] = Res(tag, rec)]

\* ------------------------------------------------------------- create
\* tokio::fs::create_dir_all(&self.folder_name)
CreateDirAll(p) ==
  /\ pc[p] = "create_dir"
  /\ folder_exists' = TRUE
  /\ pc' = [pc EXCEPT ![p] = "create_open"]
  /\ UNCHANGED <<dir, inode, now, cfgVars, call, ioVars, sweepVars, result, hist>>
  /\ Touched(p)

\* OpenOptions::new().create_new(true).write(true).open(..)
CreateOpen(p) ==
  LET n == IdToString(call[p].rec.id)
      i == call[p].rec.id IN
  /\ pc[p] = "create_open"
  /\ IF OpenOutcome(n, CreateOpenOptions) = "fail"
     THEN /\ Returns(p, "err", NullRec)
          /\ hist' = [hist EXCEPT ![i] =
                        IF @.op = "broken" THEN @
                        ELSE Hist("create_rejected", @.rec, @.live)]
          /\ UNCHANGED <<fsVars, ioVars>>
     ELSE /\ dir' = DirAfterOpen(n, CreateOpenOptions)
          /\ inode' = InodeAfterOpen(n, CreateOpenOptions)
          /\ fd' = [fd EXCEPT ![p] = OpenedInode(n, CreateOpenOptions)]
          /\ off' = [off EXCEPT ![p] = 0]
          /\ pc' = [pc EXCEPT ![p] = "write"]
          /\ UNCHANGED <<folder_exists, buf, result, hist>>
  /\ UNCHANGED <<now, cfgVars, call, sweepVars>>
  /\ Touched(p)

\* serde_json::to_writer(file, &record), one write per token; the file is
\* closed when the last one is written.
WriteToken(p) ==
  LET toks == Encode(call[p].rec)
      i == fd[p]
      k == off[p]
      last == k + 1 >= Len(toks)
      closed == [fd EXCEPT ![p] = 0]
      written == [inode EXCEPT ![i] =
                    [content |-> WriteAt(@.content, k, toks[k + 1]), mtime |-> now]] IN
  /\ pc[p] = "write"
  /\ IF last
     THEN /\ fd' = closed
          /\ off' = [off EXCEPT ![p] = 0]
          /\ inode' = Reclaim(dir, closed, written)
          /\ Returns(p, "ok", NullRec)
          /\ hist' = [hist EXCEPT ![call[p].rec.id] =
                        Hist(call[p].op, call[p].rec, call[p].op = "create" \/ @.live)]
     ELSE /\ inode' = written
          /\ off' = [off EXCEPT ![p] = k + 1]
          /\ UNCHANGED <<fd, pc, result, hist>>
  /\ UNCHANGED <<folder_exists, dir, now, cfgVars, call, buf, sweepVars>>
  /\ Touched(p)

\* --------------------------------------------------------------- save
\* OpenOptions::new().write(true).truncate(true).open(..)
SaveOpen(p) ==
  LET n == IdToString(call[p].rec.id) IN
  /\ pc[p] = "save_open"
  /\ IF OpenOutcome(n, SaveOpenOptions) = "fail"
     THEN /\ Returns(p, "err", NullRec)
          /\ UNCHANGED <<fsVars, ioVars>>
     ELSE /\ dir' = DirAfterOpen(n, SaveOpenOptions)
          /\ inode' = InodeAfterOpen(n, SaveOpenOptions)
          /\ fd' = [fd EXCEPT ![p] = OpenedInode(n, SaveOpenOptions)]
          /\ off' = [off EXCEPT ![p] = 0]
          /\ pc' = [pc EXCEPT ![p] = "write"]
          /\ UNCHANGED <<folder_exists, buf, result>>
  /\ UNCHANGED <<now, cfgVars, call, sweepVars, hist>>
  /\ Touched(p)

\* --------------------------------------------------------------- load
\* How load's result reaches its caller: the caller of the store, or the
\* sweep (`let Some(session) = self.load(&session_id).await? else continue`).
LoadReturnsSwallowing(p, tag, rec) ==
  IF InSweep(p)
  THEN /\ pc' = [pc EXCEPT ![p] =
                   IF tag = "some" THEN "sweep_check_expiry" ELSE "sweep_next"]
       /\ UNCHANGED result
       /\ session' = [session EXCEPT ![p] = rec]
  ELSE /\ Returns(p, tag, rec)
       /\ UNCHANGED session
LoadReturns(p, tag, rec) ==
  IF InSweep(p)
  THEN /\ pc' = [pc EXCEPT ![p] =
                   IF tag = "err" THEN "done"
                   ELSE IF tag = "none" THEN "sweep_next"
                   ELSE "sweep_check_expiry"]
       /\ result' = [result EXCEPT ![p] = IF tag = "err" THEN Res("err", NullRec) ELSE @]
       /\ session' = [session EXCEPT ![p] = rec]
  ELSE /\ Returns(p, tag, rec)
       /\ UNCHANGED session

\* if !path.is_file() { return Ok(None) }
LoadIsFile(p) ==
  /\ pc[p] = "load_is_file"
  /\ IF ~IsFile(TargetName(p))
     THEN LoadReturns(p, "none", NullRec)
     ELSE /\ pc' = [pc EXCEPT ![p] = "load_open"]
          /\ UNCHANGED <<result, session>>
  /\ UNCHANGED <<fsVars, now, cfgVars, call, ioVars, entries, cur, dirty, hist>>

\* OpenOptions::new().read(true).open(path)
LoadOpen(p) ==
  LET n == TargetName(p) IN
  /\ pc[p] = "load_open"
  /\ IF OpenOutcome(n, LoadOpenOptions) = "fail"
     THEN /\ LoadReturns(p, "err", NullRec)
          /\ UNCHANGED <<fsVars, ioVars>>
     ELSE /\ dir' = DirAfterOpen(n, LoadOpenOptions)
          /\ inode' = InodeAfterOpen(n, LoadOpenOptions)
          /\ fd' = [fd EXCEPT ![p] = OpenedInode(n, LoadOpenOptions)]
          /\ off' = [off EXCEPT ![p] = 0]
          /\ buf' = [buf EXCEPT ![p] = <<>>]
          /\ pc' = [pc EXCEPT ![p] = "load_read"]
          /\ UNCHANGED <<folder_exists, result, session>>
  /\ UNCHANGED <<now, cfgVars, call, entries, cur, hist>>
  /\ Touched(p)

\* let out = serde_json::from_reader(file).map_err(..)?; Ok(out): what was
\* read is returned as it decodes, whatever its expiry_date.
LoadOutcomeFilteringExpired(s) ==
  IF ~WellFormed(s) THEN Res("err", NullRec)
  ELSE IF IsExpired(Decode(s)) THEN Res("none", NullRec)
  ELSE Res("some", Decode(s))
LoadOutcome(s) ==
  IF WellFormed(s) THEN Res("some", Decode(s)) ELSE Res("err", NullRec)

\* serde_json::from_reader(file): one read per token up to the end of the
\* file, then the record or the decoding error.
LoadRead(p) ==
  LET c == inode[fd[p]].content
      closed == [fd EXCEPT ![p] = 0] IN
  /\ pc[p] = "load_read"
  /\ IF off[p] < Len(c)
     THEN /\ buf' = [buf EXCEPT ![p] = Append(@, c[off[p] + 1])]
          /\ off' = [off EXCEPT ![p] = @ + 1]
          /\ UNCHANGED <<fd, inode, pc, result, session>>
     ELSE /\ fd' = closed
          /\ off' = [off EXCEPT ![p] = 0]
          /\ buf' = [buf EXCEPT ![p] = <<>>]
          /\ inode' = Reclaim(dir, closed, inode)
          /\ LoadReturns(p, LoadOutcome(buf[p]).tag, LoadOutcome(buf[p]).rec)
  /\ UNCHANGED <<folder_exists, dir, now, cfgVars, call, entries, cur, dirty, hist>>

\* ------------------------------------------------------------- delete
\* remove_file(..) and the match on its result.
DeleteRemove(p) ==
  LET n == TargetName(p)
      e == RemoveOutcome(n)
      tag == DeleteResult(e)
      unlinked == [dir EXCEPT ![n] = 0] IN
  /\ pc[p] = "delete_remove"
  /\ IF e = "Ok"
     THEN /\ dir' = unlinked
          /\ inode' = Reclaim(unlinked, fd, inode)
     ELSE UNCHANGED <<dir, inode>>
  /\ IF InSweep(p) /\ tag = "ok"
     THEN /\ pc' = [pc EXCEPT ![p] = "sweep_next"]
          /\ UNCHANGED result
     ELSE Returns(p, tag, NullRec)
  /\ hist' = [hist EXCEPT ![TargetId(p)] =
                IF tag = "ok"
                THEN Hist(IF InSweep(p) THEN "swept" ELSE "delete", NullRec, FALSE)
                ELSE @]
  /\ UNCHANGED <<folder_exists, now, cfgVars, call, ioVars, sweepVars>>
  /\ Touched(p)

\* ------------------------------------------------------ delete_expired
\* tokio::fs::read_dir(&self.folder_name): the entries the pass will see.
SweepReadDir(p) ==
  /\ pc[p] = "sweep_read_dir"
  /\ IF ~folder_exists
     THEN /\ Returns(p, "err", NullRec)
          /\ UNCHANGED entries
     ELSE /\ entries' = [entries EXCEPT ![p] = {n \in Names : dir[n] # 0}]
          /\ pc' = [pc EXCEPT ![p] = "sweep_next"]
          /\ UNCHANGED result
  /\ UNCHANGED <<fsVars, now, cfgVars, call, ioVars, cur, session, dirty, hist>>

\* folders.next_entry() and the parse of the entry's file name; the order
\* of the entries is the file system's.
SweepNextEntry(p) ==
  /\ pc[p] = "sweep_next"
  /\ IF entries[p] = {}
     THEN /\ Returns(p, "ok", NullRec)
          /\ UNCHANGED <<entries, cur>>
     ELSE \E n \in entries[p] :
            /\ entries' = [entries EXCEPT ![p] = @ \ {n}]
            /\ IF IdFromStr(n) = 0
               THEN UNCHANGED <<pc, cur>>
               ELSE /\ cur' = [cur EXCEPT ![p] = IdFromStr(n)]
                    /\ pc' = [pc EXCEPT ![p] = "sweep_metadata"]
            /\ UNCHANGED result
  /\ UNCHANGED <<fsVars, now, cfgVars, call, ioVars, session, dirty, hist>>

\* dir_entry.metadata(), metadata.modified(), SystemTime::now()
\* .duration_since(modified_date) and the threshold.
SweepMetadata(p) ==
  LET n == IdToString(cur[p]) IN
  /\ pc[p] = "sweep_metadata"
  /\ IF ~IsFile(n) \/ now < inode[dir[n]].mtime
     THEN Returns(p, "err", NullRec)
     ELSE /\ pc' = [pc EXCEPT ![p] =
                      IF TooYoung(now - inode[dir[n]].mtime)
                      THEN "sweep_next" ELSE "load_is_file"]
          /\ UNCHANGED result
  /\ UNCHANGED <<fsVars, now, cfgVars, call, ioVars, sweepVars, dirty, hist>>

\* if OffsetDateTime::now_utc() > session.expiry_date { self.delete(..) }
SweepCheckExpiry(p) ==
  /\ pc[p] = "sweep_check_expiry"
  /\ pc' = [pc EXCEPT ![p] =
              IF IsExpired(session[p]) THEN "delete_remove" ELSE "sweep_next"]
  /\ UNCHANGED <<fsVars, now, cfgVars, call, ioVars, sweepVars, result, dirty, hist>>

\* ---------------------------------------------------------- environment
\* Time passes.
Tick ==
  /\ now < MaxTime
  /\ now' = now + 1
  /\ UNCHANGED <<fsVars, cfgVars, pc, call, ioVars, sweepVars, result, dirty, hist>>

\* ------------------------------------------------------- specifications
CreateSteps(p) == CreateDirAll(p) \/ CreateOpen(p)
LoadSteps(p) == LoadIsFile(p) \/ LoadOpen(p) \/ LoadRead(p)
SweepSteps(p) ==
  SweepReadDir(p) \/ SweepNextEntry(p) \/ SweepMetadata(p) \/ SweepCheckExpiry(p)

Starts(p) ==
  StartCreate(p) \/ StartSave(p) \/ StartLoad(p) \/ StartDelete(p) \/ StartSweep(p)
Steps(p) ==
  \/ CreateSteps(p) \/ SaveOpen(p) \/ WriteToken(p)
  \/ LoadSteps(p) \/ DeleteRemove(p) \/ SweepSteps(p)

\* One caller: every call runs to its end before the next one starts.
Callers == {1}
Next == \/ \E p \in Callers : Starts(p) \/ Steps(p) \/ Return(p)
        \/ Tick
Spec == Init /\ [][Next]_vars

\* ------------------------------------------------------------- faults
\* A write of to_writer fails (the disk is full, an I/O error): create and
\* save return "Failed to serialize/decode" and the file is closed as it is.
WriteFails(p) ==
  LET closed == [fd EXCEPT ![p] = 0] IN
  /\ pc[p] = "write"
  /\ fd' = closed
  /\ off' = [off EXCEPT ![p] = 0]
  /\ inode' = Reclaim(dir, closed, inode)
  /\ Returns(p, "err", NullRec)
  /\ hist' = [hist EXCEPT ![call[p].rec.id] = Hist("broken", NullRec, @.live)]
  /\ UNCHANGED <<folder_exists, dir, now, cfgVars, call, buf, sweepVars>>
  /\ Touched(p)

\* remove_file fails on an existing file with an error other than NotFound.
RemoveFails(p) ==
  /\ pc[p] = "delete_remove"
  /\ IsFile(TargetName(p))
  /\ Returns(p, DeleteResult("PermissionDenied"), NullRec)
  /\ UNCHANGED <<fsVars, now, cfgVars, call, ioVars, sweepVars, hist>>
  /\ Touched(p)

\* One caller on a file system whose writes and removals may fail.
NextFault == Next \/ \E p \in Callers : WriteFails(p) \/ RemoveFails(p)
SpecFault == Init /\ [][NextFault]_vars

\* dir_entry.metadata() fails (an I/O error, a permission): "Failed to get
\* metadata".
MetadataFails(p) ==
  /\ pc[p] = "sweep_metadata"
  /\ Returns(p, "err", NullRec)
  /\ UNCHANGED <<fsVars, now, cfgVars, call, ioVars, sweepVars, dirty, hist>>

\* SystemTime::now() is the wall clock: it can be set back.
ClockBack ==
  /\ now > 0
  /\ now' = now - 1
  /\ UNCHANGED <<fsVars, cfgVars, pc, call, ioVars, sweepVars, result, dirty, hist>>

\* One caller creating sessions and sweeping, on a file system whose writes
\* and metadata reads may fail, under a clock that may be set back.
NextAbort ==
  \/ \E p \in Callers :
       \/ StartCreate(p) \/ CreateSteps(p) \/ WriteToken(p) \/ WriteFails(p)
       \/ StartSweep(p) \/ SweepSteps(p) \/ LoadSteps(p) \/ DeleteRemove(p)
       \/ MetadataFails(p) \/ Return(p)
  \/ Tick
  \/ ClockBack
SpecAbort == Init /\ [][NextAbort]_vars

\* A folder of sessions stored earlier, each file complete.
InitStored ==
  /\ InitProcs
  /\ now = 0
  /\ minimum_expiry_date \in MinAges
  /\ folder_exists = TRUE
  /\ \E r1 \in Record : \E r2 \in Record : \E present \in SUBSET Ids :
       /\ r1.id = 1 /\ r2.id = 2 /\ present # {}
       /\ dir = [n \in Names |-> IF IdFromStr(n) \in present THEN IdFromStr(n) ELSE 0]
       /\ inode = [i \in Inodes |->
                     IF i \in present
                     THEN [content |-> Encode(IF i = 1 THEN r1 ELSE r2), mtime |-> 0]
                     ELSE Blank]
       /\ hist = [i \in Ids |->
                    IF i \in present
                    THEN Hist("create", IF i = 1 THEN r1 ELSE r2, TRUE)
                    ELSE Hist("none", NullRec, FALSE)]

\* Two delete_expired passes at a time over the same folder.
Sweepers == {1, 2}
NextSweeps ==
  \/ \E p \in Sweepers :
       StartSweep(p) \/ SweepSteps(p) \/ LoadSteps(p) \/ DeleteRemove(p) \/ Return(p)
  \/ Tick
SpecSweeps == InitStored /\ [][NextSweeps]_vars

\* Three create calls at a time, each made once.
Creators == {1, 2, 3}
NextCreates == \E p \in Creators : StartCreate(p) \/ CreateSteps(p) \/ WriteToken(p)
SpecCreates == Init /\ [][NextCreates]_vars

\* One caller loads while another creates and deletes.
Loader == {1}
Writer == {2}
NextLoadRace ==
  \/ \E p \in Loader : StartLoad(p) \/ LoadSteps(p) \/ Return(p)
  \/ \E p \in Writer :
       \/ StartCreate(p) \/ StartDelete(p)
       \/ CreateSteps(p) \/ WriteToken(p) \/ DeleteRemove(p) \/ Return(p)
SpecLoadRace == Init /\ [][NextLoadRace]_vars

\* One caller saves while another deletes, over sessions stored earlier.
Saver == {1}
Deleter == {2}
NextSaveDelete ==
  \/ \E p \in Saver : StartSave(p) \/ SaveOpen(p) \/ WriteToken(p) \/ Return(p)
  \/ \E p \in Deleter : StartDelete(p) \/ DeleteRemove(p) \/ Return(p)
SpecSaveDelete == InitStored /\ [][NextSaveDelete]_vars

\* One delete_expired pass at a time while another caller saves.
Sweeper == {2}
NextSweepSave ==
  \/ \E p \in Sweeper :
       StartSweep(p) \/ SweepSteps(p) \/ LoadSteps(p) \/ DeleteRemove(p) \/ Return(p)
  \/ \E p \in Saver : StartSave(p) \/ SaveOpen(p) \/ WriteToken(p) \/ Return(p)
  \/ Tick
SpecSweepSave == InitStored /\ [][NextSweepSave]_vars

\* A folder of sessions stored earlier, where a create whose write failed may
\* have left its file empty.
InitLeftovers ==
  /\ InitProcs
  /\ now = 0
  /\ minimum_expiry_date \in MinAges
  /\ folder_exists = TRUE
  /\ \E r1 \in Record : \E r2 \in Record : \E broken \in SUBSET Ids :
       /\ r1.id = 1 /\ r2.id = 2 /\ broken # Ids
       /\ dir = [n \in Names |-> IdFromStr(n)]
       /\ inode = [i \in Inodes |->
                     IF i \in broken THEN [content |-> <<>>, mtime |-> 0]
                     ELSE IF i \in Ids
                     THEN [content |-> Encode(IF i = 1 THEN r1 ELSE r2), mtime |-> 0]
                     ELSE Blank]
       /\ hist = [i \in Ids |->
                    IF i \in broken THEN Hist("broken", NullRec, FALSE)
                    ELSE Hist("create", IF i = 1 THEN r1 ELSE r2, TRUE)]

\* The periodic task: delete_expired is called again and again while time
\* passes and nothing else writes to the folder.
SweeperStep ==
  \E p \in Sweeper :
    StartSweep(p) \/ SweepSteps(p) \/ LoadSteps(p) \/ DeleteRemove(p) \/ Return(p)
NextReclaim == SweeperStep \/ Tick
SpecReclaim ==
  InitLeftovers /\ [][NextReclaim]_vars /\ WF_vars(SweeperStep) /\ WF_vars(Tick)

\* Two callers, each making one call of any kind at a time with the other.
Pair == {1, 2}
NextIsolation ==
  \/ \E p \in Pair : Starts(p) \/ Steps(p)
  \/ Tick
SpecIsolation == InitStored /\ [][NextIsolation]_vars

\* ------------------------------------------------------------ properties
LoadDone(p, i) == pc[p] = "done" /\ call[p].op = "load" /\ call[p].rec.id = i
Stored(n) == Decode(inode[dir[n]].content)
Age(n) == now - inode[dir[n]].mtime

\* C1: round trip. A load of an identifier whose last changing call was a
\* successful create(R) returns Some(R).
C1_RoundTrip ==
  \A p \in AllProcs : \A i \in Ids :
    (LoadDone(p, i) /\ hist[i].op = "create") => result[p] = Res("some", hist[i].rec)
C1_Witness ==
  \E p \in AllProcs : \E i \in Ids :
    LoadDone(p, i) /\ hist[i].op = "create" /\ result[p] = Res("some", hist[i].rec)

\* C2: no duplicate creation. create's open on an identifier whose file
\* exists returns a backend error and changes nothing in the folder, whatever
\* record it carries; a load that follows returns the record stored before.
C2_RejectedCreateStep(p) ==
  (pc[p] = "create_open" /\ pc'[p] # pc[p] /\ IsFile(IdToString(call[p].rec.id)))
    => /\ pc'[p] = "done"
       /\ result'[p].tag = "err"
       /\ fsVars' = fsVars
C2_LoadAfterRejected ==
  \A p \in AllProcs : \A i \in Ids :
    (LoadDone(p, i) /\ hist[i].op = "create_rejected")
      => result[p] = Res("some", hist[i].rec)
C2_NoDuplicateCreate ==
  /\ []C2_LoadAfterRejected
  /\ [][\A p \in AllProcs : C2_RejectedCreateStep(p)]_vars
C2_Witness ==
  \E p \in AllProcs : \E i \in Ids :
    /\ LoadDone(p, i) /\ hist[i].op = "create_rejected"
    /\ result[p] = Res("some", hist[i].rec)

\* C3: save requires existence. save's open on an identifier that has no
\* file returns a backend error and leaves the folder (its existence, its
\* entries, every file) as it was.
C3_SaveAbsentStep(p) ==
  (pc[p] = "save_open" /\ pc'[p] # pc[p] /\ ~IsFile(IdToString(call[p].rec.id)))
    => /\ pc'[p] = "done"
       /\ result'[p].tag = "err"
       /\ fsVars' = fsVars
C3_SaveRequiresExistence == [][\A p \in AllProcs : C3_SaveAbsentStep(p)]_vars
C3_Witness ==
  \E p \in AllProcs :
    /\ pc[p] = "done" /\ call[p].op = "save" /\ result[p].tag = "err"
    /\ ~folder_exists

\* C4: idempotent delete. A delete returns success whether or not the file
\* exists, the file is absent afterwards, a delete of an absent file changes
\* nothing, and a load after a delete returns None.
C4_DeleteStep(p) ==
  (pc[p] = "delete_remove" /\ pc'[p] # pc[p] /\ call[p].op = "delete")
    => /\ pc'[p] = "done"
       /\ result'[p].tag = "ok"
       /\ dir'[IdToString(call[p].rec.id)] = 0
       /\ (~IsFile(IdToString(call[p].rec.id)) => fsVars' = fsVars)
C4_LoadAfterDelete ==
  \A p \in AllProcs : \A i \in Ids :
    (LoadDone(p, i) /\ hist[i].op = "delete") => result[p] = Res("none", NullRec)
C4_IdempotentDelete ==
  /\ []C4_LoadAfterDelete
  /\ [][\A p \in AllProcs : C4_DeleteStep(p)]_vars
C4_Witness ==
  \E p \in AllProcs : \E i \in Ids :
    LoadDone(p, i) /\ hist[i].op = "delete" /\ result[p] = Res("none", NullRec)

\* C5: update semantics. A load of an identifier whose last changing call
\* was a successful save(R') returns Some(R'), whatever was stored before.
C5_UpdateSemantics ==
  \A p \in AllProcs : \A i \in Ids :
    (LoadDone(p, i) /\ hist[i].op = "save") => result[p] = Res("some", hist[i].rec)
C5_Witness ==
  \E p \in AllProcs : \E i \in Ids :
    LoadDone(p, i) /\ hist[i].op = "save" /\ result[p] = Res("some", hist[i].rec)

\* C6: sweep threshold. With one caller, a pass that is done with an entry
\* has kept its file only if the file was younger than minimum_expiry_date or
\* its stored expiry is not before the current time, has removed it only if it
\* was at least that old and its stored expiry is before the current time, and
\* a file younger than the threshold is always kept.
EntryPcs == {"sweep_metadata", "load_is_file", "load_open", "load_read",
             "sweep_check_expiry", "delete_remove"}
C6_EntryStep(p) ==
  LET n == IdToString(cur[p]) IN
  (InSweep(p) /\ pc[p] \in EntryPcs /\ pc'[p] # pc[p] /\ IsFile(n))
    => /\ (pc'[p] = "sweep_next" /\ dir'[n] # 0)
            => \/ pc[p] = "sweep_metadata" /\ Age(n) < minimum_expiry_date
               \/ pc[p] = "sweep_check_expiry" /\ ~(now > Stored(n).expiry_date)
       /\ (dir'[n] = 0)
            => /\ Age(n) >= minimum_expiry_date
               /\ now > Stored(n).expiry_date
       /\ (pc[p] = "sweep_metadata" /\ Age(n) < minimum_expiry_date)
            => (pc'[p] = "sweep_next" /\ fsVars' = fsVars)
       /\ pc'[p] # "done"
C6_SweepThreshold == [][\A p \in AllProcs : C6_EntryStep(p)]_vars
C6_Witness ==
  \E p \in AllProcs :
    /\ InSweep(p) /\ pc[p] = "sweep_next" /\ cur[p] # 0
    /\ IsFile(IdToString(cur[p]))
    /\ Age(IdToString(cur[p])) < minimum_expiry_date
    /\ now > Stored(IdToString(cur[p])).expiry_date

\* C7: concurrent sweep safety. Of two delete_expired passes running at a
\* time over an existing folder, neither returns a backend error.
C7_ConcurrentSweepsSucceed ==
  \A p \in AllProcs :
    (pc[p] = "done" /\ call[p].op = "delete_expired") => result[p].tag = "ok"

\* C8: absence is never an error for load. A load whose open finds no file
\* (the file was removed after the is_file check) does not return a backend
\* error.
C8_OpenStep(p) ==
  (pc[p] = "load_open" /\ pc'[p] # pc[p] /\ ~IsFile(TargetName(p)))
    => result'[p].tag # "err"
C8_AbsenceIsNoError == [][\A p \in AllProcs : C8_OpenStep(p)]_vars

\* C9: exclusive creation. Of the create calls made at a time for one
\* identifier at most one returns success, the others return a backend error,
\* and once the successful one has returned the file holds its record.
CreateDone(p, i, tag) ==
  pc[p] = "done" /\ call[p].op = "create" /\ call[p].rec.id = i /\ result[p].tag = tag
C9_ExclusiveCreate ==
  \A i \in Ids :
    /\ Cardinality({p \in AllProcs : CreateDone(p, i, "ok")}) <= 1
    /\ \A p \in AllProcs :
         CreateDone(p, i, "ok")
           => /\ IsFile(IdToString(i))
              /\ WellFormed(inode[dir[IdToString(i)]].content)
              /\ Stored(IdToString(i)) = call[p].rec
    /\ \A p \in AllProcs :
         (pc[p] = "done" /\ call[p].op = "create") => result[p].tag \in {"ok", "err"}
C9_Witness ==
  \E i \in Ids : \E p \in AllProcs : \E q \in AllProcs :
    /\ CreateDone(p, i, "ok") /\ CreateDone(q, i, "err")
    /\ call[q].rec # call[p].rec
    /\ Stored(IdToString(i)) = call[p].rec

Quiet == \A p \in AllProcs : pc[p] \in {"idle", "done"}

\* C11: directory/live-session correspondence. Between calls the session
\* files are exactly the identifiers a create has stored and no delete or
\* sweep has removed since; only a create's open adds an entry and only the
\* remove_file of delete or of the sweep removes one.
C11_Correspondence ==
  Quiet => \A i \in Ids : IsFile(IdToString(i)) <=> hist[i].live
C11_EntryStep ==
  \A n \in SessionNames :
    /\ (dir[n] = 0 /\ dir'[n] # 0)
         => \E p \in AllProcs :
              /\ call[p].op = "create" /\ pc[p] = "create_open"
              /\ IdToString(call[p].rec.id) = n
              /\ pc'[p] = "write"
    /\ (dir[n] # 0 /\ dir'[n] = 0)
         => \E p \in AllProcs :
              /\ call[p].op \in {"delete", "delete_expired"}
              /\ pc[p] = "delete_remove" /\ TargetName(p) = n
              /\ pc'[p] # pc[p]
C12_ForeignFrame ==
  \A n \in ForeignNames :
    /\ dir'[n] = dir[n]
    /\ dir[n] # 0 => inode'[dir[n]] = inode[dir[n]]
C12_SkipStep(p) ==
  (/\ InSweep(p) /\ pc[p] = "sweep_next"
   /\ entries'[p] # entries[p]
   /\ (entries[p] \ entries'[p]) \subseteq ForeignNames)
    => (pc'[p] = "sweep_next" /\ result'[p] = result[p])
C12_PassResult ==
  \A p \in AllProcs :
    (pc[p] = "done" /\ InSweep(p) /\ result[p].tag = "err") => ~folder_exists
C12_ForeignFilesTolerated ==
  /\ []C12_PassResult
  /\ [][C12_ForeignFrame /\ \A p \in AllProcs : C12_SkipStep(p)]_vars
C12_Witness ==
  \E p \in AllProcs : \E n \in ForeignNames :
    /\ pc[p] = "done" /\ InSweep(p) /\ result[p].tag = "ok"
    /\ dir[n] # 0 /\ inode[dir[n]].content = Junk
    /\ Age(n) >= minimum_expiry_date
    /\ \E i \in Ids : hist[i].op = "swept"

\* C20: load does not filter on expiry. With one caller, a load of an
\* identifier whose file holds a record returns that record, also when its
\* expiry_date is before the current time.
C20_LoadIgnoresExpiry ==
  \A p \in AllProcs : \A i \in Ids :
    (/\ LoadDone(p, i) /\ IsFile(IdToString(i))
     /\ WellFormed(inode[dir[IdToString(i)]].content))
      => result[p] = Res("some", Stored(IdToString(i)))
C20_Witness ==
  \E p \in AllProcs : \E i \in Ids :
    /\ LoadDone(p, i) /\ IsFile(IdToString(i))
    /\ result[p] = Res("some", Stored(IdToString(i)))
    /\ now > result[p].rec.expiry_date

\* C13: save racing delete. Whenever neither the save nor the delete is in
\* progress, the identifier has no file or its file holds one complete
\* record, the one stored before or the one last saved; every delete returns
\* success.
C13_SaveRacingDelete ==
  /\ \A p \in AllProcs :
       (pc[p] = "done" /\ call[p].op = "delete") => result[p].tag = "ok"
  /\ Quiet =>
       \A i \in Ids :
         IsFile(IdToString(i))
           => /\ WellFormed(inode[dir[IdToString(i)]].content)
              /\ hist[i].op \in {"create", "save"}
              /\ Stored(IdToString(i)) = hist[i].rec
C13_Witness ==
  \E p \in Saver : \E q \in Deleter :
    /\ pc[p] = "done" /\ call[p].op = "save" /\ result[p].tag = "ok"
    /\ pc[q] = "done" /\ call[q].op = "delete" /\ result[q].tag = "ok"
    /\ call[q].rec.id = call[p].rec.id
    /\ hist[call[p].rec.id].op = "save"
    /\ ~IsFile(IdToString(call[p].rec.id))

\* C14: entry content invariant. In every state, the states seen by other
\* callers while a create or a save is writing included, every file named by
\* a session identifier holds one complete record whose id is the file name.
C14_EntryContent ==
  \A n \in SessionNames :
    IsFile(n)
      => /\ WellFormed(inode[dir[n]].content)
         /\ Stored(n).id = IdFromStr(n)

\* C15: the sweep only removes expired records. When a delete_expired pass
\* running beside save calls removes a file that holds a complete record, the
\* expiry of that record is before the current time.
C15_RemoveStep(p) ==
  LET n == IdToString(cur[p]) IN
  (/\ InSweep(p) /\ pc[p] = "delete_remove" /\ pc'[p] # pc[p]
   /\ IsFile(n) /\ dir'[n] = 0
   /\ WellFormed(inode[dir[n]].content))
    => now > Stored(n).expiry_date
C15_SweepRemovesOnlyExpired == [][\A p \in AllProcs : C15_RemoveStep(p)]_vars

\* C16: sweep fail-fast. A delete_expired pass that cannot list the folder
\* (the folder is missing), cannot read an entry's metadata, meets an entry
\* modified later than the current time, or gets an error from loading an
\* entry, returns a backend error at that step, which changes no file; the
\* entries it had not yet taken are all still in the folder when it returns.
C16_AbortStep(p) ==
  LET n == IdToString(cur[p])
      aborts == pc'[p] = "done" /\ result'[p] = Res("err", NullRec)
                  /\ fsVars' = fsVars IN
  (InSweep(p) /\ pc'[p] # pc[p])
    => /\ (pc[p] = "sweep_read_dir" /\ ~folder_exists) => aborts
       /\ (pc[p] = "sweep_metadata" /\ (~IsFile(n) \/ now < inode[dir[n]].mtime))
            => aborts
       /\ (pc[p] = "sweep_metadata" /\ pc'[p] = "done") => aborts
       /\ (pc[p] = "load_open" /\ ~IsFile(n)) => aborts
       /\ (/\ pc[p] = "load_read"
           /\ off[p] >= Len(inode[fd[p]].content)
           /\ ~WellFormed(buf[p]))
            => /\ pc'[p] = "done" /\ result'[p] = Res("err", NullRec)
               /\ dir' = dir
               /\ \A m \in Names : dir[m] # 0 => inode'[dir[m]] = inode[dir[m]]
C16_Unvisited ==
  \A p \in AllProcs :
    (InSweep(p) /\ pc[p] = "done" /\ result[p].tag = "err")
      => \A n \in entries[p] : dir[n] # 0
C16_SweepFailFast ==
  []C16_Unvisited /\ [][\A p \in AllProcs : C16_AbortStep(p)]_vars
C16_Witness ==
  \E p \in AllProcs : \E n \in SessionNames :
    /\ InSweep(p) /\ pc[p] = "done" /\ result[p].tag = "err"
    /\ n \in entries[p]
    /\ IsFile(n) /\ WellFormed(inode[dir[n]].content)
    /\ Age(n) >= minimum_expiry_date
    /\ now > Stored(n).expiry_date

\* C17: eventual reclamation. With delete_expired called again and again
\* and no file written again, every complete record whose expiry is before
\* the current time is eventually removed from the folder, whatever else the
\* folder holds.
C17_EventuallyReclaimed ==
  \A i \in Ids :
    (/\ IsFile(IdToString(i))
     /\ WellFormed(inode[dir[IdToString(i)]].content)
     /\ now > Stored(IdToString(i)).expiry_date)
      ~> ~IsFile(IdToString(i))

\* C18: per-record isolation. A step of create, save, load or delete for one
\* identifier leaves the entry and the content of every other identifier's
\* file as they were, whatever the other caller is doing; a step of load
\* changes no file; a step of delete_expired creates no entry and changes no
\* file that stays in the folder.
Acted(p) ==
  <<pc[p], fd[p], off[p], buf[p], entries[p], cur[p]>>'
    # <<pc[p], fd[p], off[p], buf[p], entries[p], cur[p]>>
SameFile(n) ==
  /\ dir'[n] = dir[n]
  /\ dir[n] # 0 => inode'[dir[n]] = inode[dir[n]]
C18_IsolationStep(p) ==
  Acted(p)
    => /\ call'[p].op \in {"create", "save", "load", "delete"}
            => \A n \in Names \ {IdToString(call'[p].rec.id)} : SameFile(n)
       /\ call'[p].op = "load"
            => (folder_exists' = folder_exists /\ \A n \in Names : SameFile(n))
       /\ call'[p].op = "delete_expired"
            => \A n \in Names : dir'[n] = 0 \/ SameFile(n)
C18_PerRecordIsolation == [][\A p \in AllProcs : C18_IsolationStep(p)]_vars
C18_Witness ==
  \E p \in Pair : \E q \in Pair :
    /\ call[p].op = "save" /\ pc[p] = "write" /\ off[p] > 0
    /\ call[q].op = "delete" /\ pc[q] = "done"
    /\ call[q].rec.id # call[p].rec.id
    /\ hist[call[q].rec.id].op = "delete"
    /\ IsFile(IdToString(call[p].rec.id))

\* C19: load racing a writer. A load that has opened the file and read it
\* to its end while a create or a save of the same identifier is running
\* does not end in a backend error, neither for its caller nor for the
\* delete_expired pass that made it.
C19_ReadStep(p) ==
  (pc[p] = "load_read" /\ pc'[p] # pc[p]) => result'[p].tag # "err"
C19_LoadRacingWriter == [][\A p \in AllProcs : C19_ReadStep(p)]_vars

====
